---------------------------- MODULE Spec2Model ----------------------------
(***************************************************************************)
(* Model of backend/src/handlers/media_handler.py: the Lambda handler that *)
(* brokers media upload/download through presigned URLs, keeps media and   *)
(* QR-mapping records in DynamoDB tables and gates two endpoints on a      *)
(* marketplace entitlement record.                                         *)
(*                                                                         *)
(* Python strings that the code takes apart (request paths, file names,    *)
(* frontend URLs, uuids) are sequences of one-character strings, so that   *)
(* startswith / endswith / replace / strip / split act as in Python.       *)
(* Time is counted in whole days: datetime.now() is the variable now.      *)
(***************************************************************************)
EXTENDS Integers, Sequences, FiniteSets, TLC

(***************************************************************************)
(* Python str operations on sequences of characters                        *)
(***************************************************************************)

\* str.startswith(prefix)
StartsWith(s, p) == Len(s) >= Len(p) /\ SubSeq(s, 1, Len(p)) = p

\* str.endswith(suffix)
EndsWith(s, p) == Len(s) >= Len(p) /\ SubSeq(s, Len(s) - Len(p) + 1, Len(s)) = p

\* s[n:]
DropFirst(s, n) == SubSeq(s, n + 1, Len(s))

\* substring test: `old in s`
Contains(s, c) == \E i \in 1..Len(s) : s[i] = c

\* str.replace(old, new): every non-overlapping occurrence, left to right
RECURSIVE Replace(_, _, _)
Replace(s, old, new) ==
    IF Len(s) < Len(old) \/ Len(old) = 0 THEN s
    ELSE IF StartsWith(s, old)
         THEN new \o Replace(DropFirst(s, Len(old)), old, new)
         ELSE <<Head(s)>> \o Replace(Tail(s), old, new)

\* str.lstrip('/')
RECURSIVE LStripSlash(_)
LStripSlash(s) == IF s # <<>> /\ Head(s) = "/" THEN LStripSlash(Tail(s)) ELSE s

\* str.rstrip('/')
RECURSIVE RStripSlash(_)
RStripSlash(s) ==
    IF s # <<>> /\ s[Len(s)] = "/" THEN RStripSlash(SubSeq(s, 1, Len(s) - 1)) ELSE s

\* str.strip('/')
StripSlash(s) == RStripSlash(LStripSlash(s))

\* str.split('/'): keeps empty segments, ''.split('/') is ['']
RECURSIVE SplitSlash(_)
SplitSlash(s) ==
    IF ~Contains(s, "/") THEN <<s>>
    ELSE LET i == CHOOSE k \in 1..Len(s) : s[k] = "/" /\ \A j \in 1..(k - 1) : s[j] # "/"
         IN  <<SubSeq(s, 1, i - 1)>> \o SplitSlash(DropFirst(s, i))

\* str.split('?', 1): the part before the first '?' and the rest
SplitFirstQ(s) ==
    LET i == CHOOSE k \in 1..Len(s) : s[k] = "?" /\ \A j \in 1..(k - 1) : s[j] # "?"
    IN  <<SubSeq(s, 1, i - 1), DropFirst(s, i)>>

\* the file name kept as supplied
Basename_KeepsDirectories(p) == p

\* os.path.basename(p): what follows the last '/'
Basename(p) == LET parts == SplitSlash(p) IN parts[Len(parts)]

(***************************************************************************)
(* String literals of the handler                                          *)
(***************************************************************************)
S_api        == <<"/", "a", "p", "i", "/">>
S_api_v1     == <<"/", "a", "p", "i", "/", "v", "1">>
S_api_v1_s   == <<"/", "a", "p", "i", "/", "v", "1", "/">>
S_api_v1_v1  == <<"/", "a", "p", "i", "/", "v", "1", "/", "v", "1">>
S_proxy      == <<"/", "p", "r", "o", "x", "y">>
S_proxy_s    == <<"/", "p", "r", "o", "x", "y", "/">>
S_media      == <<"/", "m", "e", "d", "i", "a">>
S_qr         == <<"/", "q", "r">>
S_marketplace == <<"/", "m", "a", "r", "k", "e", "t", "p", "l", "a", "c", "e">>
S_register   == <<"r", "e", "g", "i", "s", "t", "e", "r">>
S_validate   == <<"v", "a", "l", "i", "d", "a", "t", "e">>
S_slash      == <<"/">>

\* the value None where the code expects a string (path_id, media_id)
NONE == <<"None">>

\* an empty dict
EmptyDict == [k \in {} |-> TRUE]

\* dict.get(key, default)
Get(d, k, default) == IF k \in DOMAIN d THEN d[k] ELSE default

(***************************************************************************)
(* normalize_path                                                          *)
(***************************************************************************)
normalize_path(path) ==
    IF StartsWith(path, S_api_v1_s) THEN S_slash \o DropFirst(path, 8)
    ELSE IF path = S_api_v1 \/ path = S_api_v1_s THEN S_slash
    ELSE IF StartsWith(path, S_api) THEN S_slash \o DropFirst(path, 5)
    ELSE IF StartsWith(path, S_proxy_s) \/ StartsWith(path, S_proxy)
         THEN S_slash \o StripSlash(Replace(path, S_proxy, <<>>))
    ELSE path

(***************************************************************************)
(* handler: the path the event is served under                             *)
(***************************************************************************)

\* lines 406-418: event.get('path', '') and the proxy path parameter
EventPath(ev) ==
    LET path == Get(ev, "path", <<>>)
        pathParameters == Get(ev, "pathParameters", EmptyDict)
    IN  IF "proxy" \in DOMAIN pathParameters /\ (path = <<>> \/ path = S_api_v1)
        THEN S_api_v1_s \o pathParameters.proxy
        ELSE path

\* line 421: the exact API root, answered before any path rewriting
IsApiRoot(method, path) ==
    method = "GET" /\ (path = S_api_v1 \/ path = S_api_v1_s \/ RStripSlash(path) = S_api_v1)

\* lines 663-667: the duplicated version prefix
FixDuplication(path) ==
    IF EndsWith(path, S_api_v1_v1) THEN Replace(path, S_api_v1_v1, S_api_v1) ELSE path

\* lines 669-672: /api/... without the version
AddVersion(path) ==
    IF StartsWith(path, S_api) /\ ~StartsWith(path, S_api_v1_s)
    THEN Replace(path, S_api, S_api_v1_s) ELSE path

\* lines 663-672: the path as rewritten before normalize_path (reported as 'path')
RewrittenPath(path) == AddVersion(FixDuplication(path))

\* lines 675: normalized_path
NormalizedPath(path) == normalize_path(RewrittenPath(path))

\* lines 679-681
PathParts(normalized) == SplitSlash(StripSlash(normalized))
BasePath(normalized) == S_slash \o PathParts(normalized)[1]
PathId(normalized) ==
    IF Len(PathParts(normalized)) > 1 THEN PathParts(normalized)[2] ELSE NONE

\* Python truthiness of path_id (None and '' are false)
Truthy(x) == x # NONE /\ x # <<>>

\* lines 686-1065: the branch of the if/elif chain that serves (method, normalized path)
Route(method, normalized) ==
    LET base == BasePath(normalized)
        id   == PathId(normalized)
    IN  IF method = "GET" /\ (normalized = S_slash \/ normalized = <<>>) THEN "root"
        ELSE IF method = "POST" /\ base = S_media THEN "post_media"
        ELSE IF method = "GET" /\ base = S_media /\ Truthy(id) THEN "get_media"
        ELSE IF method = "POST" /\ base = S_qr THEN "post_qr"
        ELSE IF method = "GET" /\ base = S_qr /\ Truthy(id) THEN "get_qr"
        ELSE IF method = "POST" /\ base = S_marketplace /\ id = S_register THEN "register"
        ELSE IF method = "GET" /\ base = S_marketplace /\ id = S_validate THEN "validate"
        ELSE "not_found"

\* the operation an event is dispatched to, from the raw event
Dispatch(ev) ==
    LET path == EventPath(ev)
    IN  IF "httpMethod" \notin DOMAIN ev THEN "key_error"
        ELSE IF IsApiRoot(ev.httpMethod, path) THEN "openapi"
        ELSE Route(ev.httpMethod, NormalizedPath(path))

(***************************************************************************)
(* Configuration, bounds and the state                                     *)
(***************************************************************************)

\* days that pass one at a time
MaxDays == 2
\* weeks that pass at once
MaxWeeks == 2
\* uuids that uuid.uuid4() hands out before POST /media is no longer taken
MaxUuids == 2
\* the same, where uploads are not what is looked at
MaxUploads == 1
\* the writes counted per record: one more than a record may have
MaxWrites == 3

\* MEDIA_EXPIRATION_DAYS, from the environment (the deployment's default)
MEDIA_EXPIRATION_DAYS == 7
\* timedelta(days=7): the default lifetime of a QR mapping
QR_EXPIRATION_DAYS == 7
\* timedelta(hours=24): a customer record older than this needs revalidation (in days)
REVALIDATION_DAYS == 1
\* expires_in of generate_presigned_url, in seconds
DEFAULT_EXPIRES_IN == 3600
QR_URL_EXPIRES_IN == 7 * 24 * 3600

VARIABLES
    now,                          \* datetime.now(), in days
    media_table,                  \* items of MEDIA_TABLE
    qr_mapping_table,             \* items of QR_MAPPING_TABLE
    marketplace_customers_table,  \* items of MARKETPLACE_CUSTOMERS_TABLE
    marketplace_token_processed,  \* the module global _marketplace_token_processed
    MPS_REGISTRATION_TOKEN,       \* the environment variable, '' when not configured
    uuids,                        \* how many uuids uuid.uuid4() has handed out
    event,                        \* the event of the invocation in progress
    response,                     \* what the invocation returns
    calls,                        \* its collaborator calls, in order, with how each ended
    issued,                       \* the POST /media answered 200: request and response bodies
    token_processed_at,           \* when this process ran initialize_marketplace_token, if it has
    writes                        \* history kept by SpecLifecycle: per record of the media and
                                  \* QR stores, by pk, how often it has been written, counted
                                  \* up to MaxWrites

vars == <<now, media_table, qr_mapping_table, marketplace_customers_table,
          marketplace_token_processed, MPS_REGISTRATION_TOKEN, uuids,
          event, response, calls, issued, token_processed_at, writes>>

(***************************************************************************)
(* Collaborators: DynamoDB tables, S3 presigning, uuid4, ResolveCustomer   *)
(***************************************************************************)

\* Table.put_item: replaces the item with the same primary key
PutItem(table, item) ==
    {i \in table : ~(i.pk = item.pk /\ i.sk = item.sk)} \cup {item}

\* Table.update_item(Key, "SET file_path = :file_path"): sets the attribute on the
\* item with that key, creating the item when there is none
UpdateFilePath(table, pk, sk, file_path) ==
    LET old == {i \in table : i.pk = pk /\ i.sk = sk}
        base == IF old = {} THEN [pk |-> pk, sk |-> sk] ELSE CHOOSE i \in old : TRUE
        new == [k \in DOMAIN base \cup {"file_path"} |->
                    IF k = "file_path" THEN file_path ELSE base[k]]
    IN  (table \ old) \cup {new}

\* Table.query(pk = :pk AND begins_with(sk, :sk)): the items, as a set
QueryByPk(table, pk, skPrefix) ==
    {i \in table : i.pk = pk /\ i.sk[1] = skPrefix}

\* the characters of the n-th hexadecimal digit
HexDigit(n) == <<"0", "1", "2", "3", "4", "5", "6", "7", "8", "9",
                 "a", "b", "c", "d", "e", "f">>[(n % 16) + 1]

\* str(uuid.uuid4()): 36 characters, 8-4-4-4-12; the n-th one handed out
Uuid4(n) ==
    <<"0", "0", "0", "0", "0", "0", "0", "0", "-", "0", "0", "0", "0", "-",
      "4", "0", "0", "0", "-", "8", "0", "0", "0", "-",
      "0", "0", "0", "0", "0", "0", "0", "0", "0", "0", "0", HexDigit(n)>>

\* line 734: str(uuid.uuid4()).replace('-', '')
NewMediaId(n) == Replace(Uuid4(n), <<"-">>, <<>>)

\* generate_presigned_url: the URL S3 signs, by what it is scoped to
generate_presigned_url(key, operation, expires_in, response_headers, t) ==
    [key |-> key, operation |-> operation, expires_in |-> expires_in,
     params |-> response_headers, signed_at |-> t]

\* generate_media_path: media/YYYY-MM-DD/media_id/file_name
generate_media_path(media_id, file_name, t) ==
    <<"media", t, media_id, Basename(file_name)>>

\* the customer a registration token resolves to (ResolveCustomer), NONE when the
\* token is not one AWS Marketplace issued
TokenCustomer(token) ==
    CASE token = "tokenA" -> "customerA"
      [] token = "tokenB" -> "customerB"
      [] OTHER -> "None"

\* resolve_marketplace_customer: customer data, or "None" when the call failed
resolve_marketplace_customer(token, t, failed) ==
    IF failed \/ TokenCustomer(token) = "None" THEN [customer_identifier |-> "None"]
    ELSE [customer_identifier |-> TokenCustomer(token), product_code |-> "prod",
          customer_aws_account_id |-> "", resolved_at |-> t]

\* store_marketplace_customer: the item it puts
CustomerItem(customer_data, user_id, t) ==
    [pk |-> <<"MARKETPLACE", customer_data.customer_identifier>>,
     sk |-> <<"USER", user_id>>,
     type |-> "marketplace_customer",
     customer_identifier |-> customer_data.customer_identifier,
     product_code |-> customer_data.product_code,
     customer_aws_account_id |-> customer_data.customer_aws_account_id,
     user_id |-> user_id,
     created_at |-> t,
     last_validated_at |-> customer_data.resolved_at,
     status |-> "active"]

\* response['Items'][0] of the GSI_TypeIndex query: the index fixes no order among
\* the records of one user, `first` names the customer whose record comes first
FirstItem(items, first) ==
    IF \E i \in items : i.customer_identifier = first
    THEN CHOOSE i \in items : i.customer_identifier = first
    ELSE CHOOSE i \in items : TRUE

\* validate_marketplace_access; out.fault = "customers_query": the query raises
validate_marketplace_access(user_id, customers, t, out) ==
    IF out.fault = "customers_query" THEN FALSE
    ELSE LET items == {i \in customers : i.type = "marketplace_customer"
                                         /\ i.user_id = user_id /\ i.status = "active"}
         IN  IF items = {} THEN FALSE
             ELSE LET customer_record == FirstItem(items, out.first)
                  IN  IF t - customer_record.last_validated_at > REVALIDATION_DAYS
                      THEN FALSE ELSE TRUE

(***************************************************************************)
(* Responses                                                               *)
(***************************************************************************)

JsonCorsHeaders ==
    ("Content-Type" :> "application/json") @@ ("Access-Control-Allow-Origin" :> "*")

\* the responses the branches build: status, the two headers, a JSON body
JsonResponse(status, body) ==
    [statusCode |-> status, headers |-> JsonCorsHeaders, body |-> body]

\* lines 653-661: the OpenAPI document, not to be cached
OpenApiResponse ==
    [statusCode |-> 200,
     headers |-> JsonCorsHeaders @@ ("Cache-Control" :> "no-cache, no-store, must-revalidate"),
     body |-> [openapi |-> "3.0.0", paths |-> {"/media", "/media/{id}", "/qr"}]]

\* lines 687-702: the endpoint listing
RootResponse ==
    JsonResponse(200, [message |-> "Kiosk Media API",
                       endpoints |-> {"GET /media/{id}", "POST /media", "POST /qr"},
                       version |-> "1.0"])

\* a denial that is a generic error
create_pause_mode_response_Generic(message) ==
    JsonResponse(500, [error |-> message])

\* create_pause_mode_response
create_pause_mode_response(message) ==
    [statusCode |-> 403,
     headers |-> JsonCorsHeaders
                 @@ ("Access-Control-Allow-Headers" :>
                        "Content-Type,X-Amz-Date,Authorization,X-Api-Key,X-Amz-Security-Token")
                 @@ ("Access-Control-Allow-Methods" :> "GET,POST,OPTIONS"),
     body |-> [error |-> "marketplace_subscription_required",
               message |-> message,
               registration_url |->
                   "https://devsecopsinc.io/products/photo-kiosk-backend/user-guide#completing-deployment",
               details |-> "Please complete AWS Marketplace subscription to access this service."]]

\* lines 1067-1076: f'Internal server error: {str(e)}' for the exception e
InternalError(exception) ==
    JsonResponse(500, [error |->
        CASE exception = "KeyError" -> "Internal server error: 'httpMethod'"
          [] exception = "JSONDecodeError" -> "Internal server error: Expecting value"
          [] exception = "ValidationError" -> "Internal server error: validation error for MediaMetadata"
          [] OTHER -> "Internal server error: An error occurred when calling the operation"])

\* an entry of the call log: a collaborator call, what it was given, whether it
\* returned (ok) or raised
Call(name, arg, ok) == [call |-> name, arg |-> arg, ok |-> ok]

\* the same, of a call made by initialize_marketplace_token
InitCall(name, arg, ok) ==
    [call |-> name, arg |-> arg, ok |-> ok, by |-> "initialize_marketplace_token"]

\* the log with the customers query of validate_marketplace_access
LogValidate(log, out) ==
    Append(log, Call("customers.query", EmptyDict, out.fault # "customers_query"))

\* what a branch of handler leaves behind: the response, the tables, the uuids
\* used and the collaborator calls made
Done(resp, M, Q, C, n, log) ==
    [response |-> resp, media |-> M, qr |-> Q, customers |-> C, uuids |-> n, calls |-> log]

\* an exception that leaves handler: there is no response
Raise_Escapes(exception, M, Q, C, n, log) ==
    Done([statusCode |-> 0, headers |-> EmptyDict, body |-> EmptyDict], M, Q, C, n, log)

\* an exception reaching the except clause of handler (lines 1067-1076)
Raise(exception, M, Q, C, n, log) == Done(InternalError(exception), M, Q, C, n, log)

\* json.loads(event['body']) if event.get('body') else {}
HasBody(ev) == "body" \in DOMAIN ev
BodyIsJson(ev) == ~HasBody(ev) \/ "invalid_json" \notin DOMAIN ev.body
ParsedBody(ev) == IF HasBody(ev) THEN ev.body ELSE EmptyDict

(***************************************************************************)
(* initialize_marketplace_token: run at the start of every invocation      *)
(***************************************************************************)
\* lines 347-363: the exchange of the configured token and the storing of its customer
ProcessToken(token, C, t, out) ==
    LET customer_data == resolve_marketplace_customer(token, t, out.fault = "init_resolve")
        resolved == customer_data.customer_identifier # "None"
        item == CustomerItem(customer_data, "anonymous", t)
        log1 == <<InitCall("resolve_customer", token, resolved)>>
    IN  IF ~resolved THEN [customers |-> C, calls |-> log1]
        ELSE IF out.fault = "init_put"
        THEN [customers |-> C,
              calls |-> Append(log1, InitCall("customers.put_item", item, FALSE))]
        ELSE [customers |-> PutItem(C, item),
              calls |-> Append(log1, InitCall("customers.put_item", item, TRUE))]

\* the token exchanged whatever the flag says
initialize_marketplace_token_EveryInvocation(processed, token, C, t, out) ==
    IF token = "" THEN [customers |-> C, calls |-> <<>>]
    ELSE ProcessToken(token, C, t, out)

initialize_marketplace_token(processed, token, C, t, out) ==
    IF processed THEN [customers |-> C, calls |-> <<>>]
    ELSE IF token = "" THEN [customers |-> C, calls |-> <<>>]
    ELSE ProcessToken(token, C, t, out)

(***************************************************************************)
(* handler: POST /media (lines 705-763)                                    *)
(***************************************************************************)

\* the item without the content type the caller gave
MediaItem_OctetStream(media_id, file_name, user_id, content_type, expires_at, t) ==
    [pk |-> <<"MEDIA", media_id>>,
     sk |-> <<"METADATA", file_name>>,
     user_id |-> user_id,
     file_name |-> file_name,
     content_type |-> "application/octet-stream",
     created_at |-> t,
     expires_at |-> expires_at,
     status |-> "active"]

\* store_media_metadata: the item it puts
MediaItem(media_id, file_name, user_id, content_type, expires_at, t) ==
    [pk |-> <<"MEDIA", media_id>>,
     sk |-> <<"METADATA", file_name>>,
     user_id |-> user_id,
     file_name |-> file_name,
     content_type |-> content_type,
     created_at |-> t,
     expires_at |-> expires_at,
     status |-> "active"]

\* dict item with item['file_path'] = file_path
WithFilePath(item, file_path) ==
    [k \in DOMAIN item \cup {"file_path"} |-> IF k = "file_path" THEN file_path ELSE item[k]]

PostMedia(ev, M, Q, C, t, out, n, log0) ==
    IF ~BodyIsJson(ev) THEN Raise("JSONDecodeError", M, Q, C, n, log0)
    ELSE
    LET body == ParsedBody(ev)
        user_id == Get(body, "user_id", "anonymous")
        log == LogValidate(log0, out)
    IN  IF ~validate_marketplace_access(user_id, C, t, out)
        THEN Done(create_pause_mode_response("AWS Marketplace subscription required for media upload"),
                  M, Q, C, n, log)
        ELSE IF ~({"file_name", "content_type"} \subseteq DOMAIN body)
        THEN Raise("ValidationError", M, Q, C, n, log)
        ELSE
        LET file_name == Basename(body.file_name)
            expires_at == Get(body, "expires_at", t + MEDIA_EXPIRATION_DAYS)
            media_id == NewMediaId(n)
            file_path == generate_media_path(media_id, file_name, t)
            upload_url == generate_presigned_url(file_path, "put_object",
                                                 DEFAULT_EXPIRES_IN, EmptyDict, t)
            item == MediaItem(media_id, file_name, user_id, body.content_type, expires_at, t)
            presigned == Append(log, Call("presign", upload_url, out.fault # "presign"))
            put == Append(presigned, Call("media.put_item", item, out.fault # "media_put"))
            updated == Append(put, Call("media.update_item", file_path,
                                        out.fault # "media_update"))
            M1 == PutItem(M, item)
            M2 == UpdateFilePath(M1, item.pk, item.sk, file_path)
        IN  IF out.fault = "presign" THEN Raise("ClientError", M, Q, C, n + 1, presigned)
            ELSE IF out.fault = "media_put" THEN Raise("ClientError", M, Q, C, n + 1, put)
            ELSE IF out.fault = "media_update"
            THEN Raise("ClientError", M1, Q, C, n + 1, updated)
            ELSE Done(JsonResponse(200, [upload_url |-> upload_url,
                                         media_id |-> media_id,
                                         metadata |-> WithFilePath(item, file_path)]),
                      M2, Q, C, n + 1, updated)

(***************************************************************************)
(* handler: GET /media/{id} (lines 766-823)                                *)
(***************************************************************************)

\* lines 792-800 and 891-896: the stored file_path, or one made from today's date
FilePathOf(item, media_id, t) ==
    IF "file_path" \in DOMAIN item THEN item.file_path
    ELSE <<"media", t, media_id, item.file_name>>

\* the record dropped by the read
GetMedia_Evicts(media_id, M, Q, C, t, out, n, log0) ==
    Done(JsonResponse(404, [error |-> "Media not found"]),
         {i \in M : i.pk # <<"MEDIA", media_id>>}, Q, C, n, log0)

GetMedia(media_id, M, Q, C, t, out, n, log0) ==
    LET log == Append(log0, Call("media.query", media_id, out.fault # "media_query"))
    IN
    IF out.fault = "media_query" THEN Raise("ClientError", M, Q, C, n, log)
    ELSE
    LET items == QueryByPk(M, <<"MEDIA", media_id>>, "METADATA")
    IN  IF items = {}
        THEN Done(JsonResponse(404, [error |-> "Media not found"]), M, Q, C, n, log)
        ELSE
        LET item == CHOOSE i \in items : TRUE
            file_path == FilePathOf(item, media_id, t)
            download_url == generate_presigned_url(
                                file_path, "get_object", DEFAULT_EXPIRES_IN,
                                [ResponseContentType |-> item.content_type], t)
            presigned == Append(log, Call("presign", download_url, out.fault # "presign"))
        IN  IF out.fault = "presign" THEN Raise("ClientError", M, Q, C, n, presigned)
            ELSE Done(JsonResponse(200, [download_url |-> download_url, metadata |-> item]),
                      M, Q, C, n, presigned)

(***************************************************************************)
(* handler: POST /qr (lines 826-921)                                       *)
(***************************************************************************)

\* a slash appended whatever the URL looks like
NormalizeFrontendUrl_AlwaysAppends(frontend_url) == frontend_url \o S_slash

\* lines 874-885: the frontend URL with a '/' before the query string or at the end
NormalizeFrontendUrl(frontend_url) ==
    IF Contains(frontend_url, "?")
    THEN LET base_url == SplitFirstQ(frontend_url)[1]
             query_part == SplitFirstQ(frontend_url)[2]
         IN  (IF EndsWith(base_url, S_slash) THEN base_url ELSE base_url \o S_slash)
             \o <<"?">> \o query_part
    ELSE IF EndsWith(frontend_url, S_slash) THEN frontend_url
         ELSE frontend_url \o S_slash

\* create_qr_mapping: the item it puts
QrItem(media_id, url, expires_at, t) ==
    [pk |-> <<"QR", media_id>>,
     sk |-> <<"MAPPING">>,
     url |-> url,
     created_at |-> t,
     expires_at |-> expires_at,
     status |-> "active"]

\* a mapping written for media that is not there
QrMediaNotFound_MapsAnyway(media_id, M, Q, C, t, n, log) ==
    Done(JsonResponse(200, [media_id |-> media_id]),
         M, PutItem(Q, QrItem(media_id, [href |-> <<>>], t + QR_EXPIRATION_DAYS, t)), C, n,
         Append(log, Call("qr.put_item",
                          QrItem(media_id, [href |-> <<>>], t + QR_EXPIRATION_DAYS, t), TRUE)))

\* lines 859-867: no item for the media id
QrMediaNotFound(media_id, M, Q, C, t, n, log) ==
    Done(JsonResponse(404, [error |-> "Media not found"]), M, Q, C, n, log)

\* the required field looked at before the entitlement
PostQr_ChecksFieldsFirst(ev, M, Q, C, t, out, n, log0) ==
    IF ~Truthy(Get(ParsedBody(ev), "media_id", NONE))
    THEN Done(JsonResponse(400, [error |-> "media_id is required"]), M, Q, C, n, log0)
    ELSE Done(create_pause_mode_response(
                  "AWS Marketplace subscription required for QR code generation"),
              M, Q, C, n, LogValidate(log0, out))

PostQr(ev, M, Q, C, t, out, n, log0) ==
    IF ~BodyIsJson(ev) THEN Raise("JSONDecodeError", M, Q, C, n, log0)
    ELSE
    LET body == ParsedBody(ev)
        media_id == Get(body, "media_id", NONE)
        user_id == Get(body, "user_id", "anonymous")
        log == LogValidate(log0, out)
        queried == Append(log, Call("media.query", media_id, out.fault # "media_query"))
    IN  IF ~validate_marketplace_access(user_id, C, t, out)
        THEN Done(create_pause_mode_response(
                      "AWS Marketplace subscription required for QR code generation"),
                  M, Q, C, n, log)
        ELSE IF ~Truthy(media_id)
        THEN Done(JsonResponse(400, [error |-> "media_id is required"]), M, Q, C, n, log)
        ELSE IF out.fault = "media_query" THEN Raise("ClientError", M, Q, C, n, queried)
        ELSE
        LET expires_at == Get(body, "expires_at", t + QR_EXPIRATION_DAYS)
            items == QueryByPk(M, <<"MEDIA", media_id>>, "METADATA")
        IN  IF items = {}
            THEN QrMediaNotFound(media_id, M, Q, C, t, n, queried)
            ELSE
            LET item == CHOOSE i \in items : TRUE
                frontend_url == Get(body, "frontend_url", <<>>)
                s3_url == generate_presigned_url(
                              FilePathOf(item, media_id, t), "get_object", QR_URL_EXPIRES_IN,
                              [ResponseContentType |-> item.content_type], t)
                url_to_use == IF frontend_url # <<>>
                              THEN [href |-> NormalizeFrontendUrl(frontend_url)]
                              ELSE s3_url
                presigned == IF frontend_url # <<>> THEN queried
                             ELSE Append(queried, Call("presign", s3_url, out.fault # "presign"))
                rendered == Append(presigned, Call("qrcode", url_to_use, out.fault # "qrcode"))
                mapping == QrItem(media_id, url_to_use, expires_at, t)
                put == Append(rendered, Call("qr.put_item", mapping, out.fault # "qr_put"))
            IN  IF frontend_url = <<>> /\ out.fault = "presign"
                THEN Raise("ClientError", M, Q, C, n, presigned)
                ELSE IF out.fault = "qrcode" THEN Raise("ClientError", M, Q, C, n, rendered)
                ELSE IF out.fault = "qr_put" THEN Raise("ClientError", M, Q, C, n, put)
                ELSE Done(JsonResponse(200, [qr_code |-> [png_of |-> url_to_use],
                                             media_id |-> media_id,
                                             mapping |-> mapping]),
                          M, PutItem(Q, mapping), C, n, put)

(***************************************************************************)
(* handler: GET /qr/{code} (lines 924-964)                                 *)
(***************************************************************************)
\* an expiry that is never looked at
QrExpired_Never(item, t) == FALSE

\* line 947: item['expires_at'] < int(datetime.now().timestamp())
QrExpired(item, t) == item.expires_at < t

GetQr(code, M, Q, C, t, out, n, log0) ==
    LET log == Append(log0, Call("qr.get_item", code, out.fault # "qr_get"))
    IN
    IF out.fault = "qr_get" THEN Raise("ClientError", M, Q, C, n, log)
    ELSE
    LET found == {i \in Q : i.pk = <<"QR", code>> /\ i.sk = <<"MAPPING">>}
    IN  IF found = {}
        THEN Done(JsonResponse(404, [error |-> "QR code not found"]), M, Q, C, n, log)
        ELSE
        LET item == CHOOSE i \in found : TRUE
        IN  IF QrExpired(item, t)
            THEN Done(JsonResponse(410, [error |-> "QR code has expired"]), M, Q, C, n, log)
            ELSE Done(JsonResponse(200, item), M, Q, C, n, log)

(***************************************************************************)
(* handler: POST /marketplace/register (lines 967-1029)                    *)
(***************************************************************************)
Register(ev, M, Q, C, t, out, n, log) ==
    IF ~BodyIsJson(ev) THEN Raise("JSONDecodeError", M, Q, C, n, log)
    ELSE
    LET body == ParsedBody(ev)
        registration_token == Get(body, "registration_token", "")
        user_id == Get(body, "user_id", "anonymous")
    IN  IF registration_token = ""
        THEN Done(JsonResponse(400,
                    [error |-> "registration_token is required",
                     message |-> "Please provide the registration token from AWS Marketplace fulfillment URL"]),
                  M, Q, C, n, log)
        ELSE
        LET customer_data == resolve_marketplace_customer(registration_token, t,
                                                          out.fault = "resolve")
            resolved == customer_data.customer_identifier # "None"
            item == CustomerItem(customer_data, user_id, t)
            log1 == Append(log, Call("resolve_customer", registration_token, resolved))
            log2 == Append(log1, Call("customers.put_item", item, out.fault # "customers_put"))
        IN  IF ~resolved
            THEN Done(JsonResponse(400,
                        [error |-> "invalid_registration_token",
                         message |-> "Failed to resolve customer information from AWS Marketplace"]),
                      M, Q, C, n, log1)
            ELSE IF out.fault = "customers_put"
            THEN Done(JsonResponse(500,
                        [error |-> "registration_failed",
                         message |-> "Failed to store marketplace customer information"]),
                      M, Q, C, n, log2)
            ELSE Done(JsonResponse(200,
                        [message |-> "Successfully registered with AWS Marketplace",
                         customer_identifier |-> customer_data.customer_identifier,
                         product_code |-> customer_data.product_code,
                         user_id |-> user_id]),
                      M, Q, PutItem(C, item), n, log2)

(***************************************************************************)
(* handler: GET /marketplace/validate (lines 1032-1049)                    *)
(***************************************************************************)
Validate(ev, M, Q, C, t, out, n, log) ==
    LET query_params == Get(ev, "queryStringParameters", EmptyDict)
        user_id == Get(query_params, "user_id", "anonymous")
        is_valid == validate_marketplace_access(user_id, C, t, out)
    IN  Done(JsonResponse(200,
                [valid |-> is_valid,
                 user_id |-> user_id,
                 message |-> IF is_valid THEN "Subscription is active"
                             ELSE "No active marketplace subscription found"]),
             M, Q, C, n, LogValidate(log, out))

\* lines 1051-1065
NotFound(ev, M, Q, C, n, log) ==
    Done(JsonResponse(404, [error |-> "Not found",
                            path |-> RewrittenPath(EventPath(ev)),
                            normalized_path |-> NormalizedPath(EventPath(ev)),
                            method |-> ev.httpMethod]),
         M, Q, C, n, log)

(***************************************************************************)
(* handler (lines 397-1076): what one invocation returns and leaves behind *)
(***************************************************************************)
handler(ev, processed, token, M, Q, C0, t, out, n) ==
    LET init == initialize_marketplace_token(processed, token, C0, t, out)
        C == init.customers
        log == init.calls
        op == Dispatch(ev)
        path_id == PathId(NormalizedPath(EventPath(ev)))
    IN  CASE op = "key_error"  -> Raise("KeyError", M, Q, C, n, log)
          [] op = "openapi"    -> Done(OpenApiResponse, M, Q, C, n, log)
          [] op = "root"       -> Done(RootResponse, M, Q, C, n, log)
          [] op = "post_media" -> PostMedia(ev, M, Q, C, t, out, n, log)
          [] op = "get_media"  -> GetMedia(path_id, M, Q, C, t, out, n, log)
          [] op = "post_qr"    -> PostQr(ev, M, Q, C, t, out, n, log)
          [] op = "get_qr"     -> GetQr(path_id, M, Q, C, t, out, n, log)
          [] op = "register"   -> Register(ev, M, Q, C, t, out, n, log)
          [] op = "validate"   -> Validate(ev, M, Q, C, t, out, n, log)
          [] OTHER             -> NotFound(ev, M, Q, C, n, log)

(***************************************************************************)
(* Events and collaborator outcomes                                        *)
(***************************************************************************)

\* 'a/b/photo.png', a file name with directories
Str_photo == <<"a", "/", "b", "/", "p", "h", "o", "t", "o", ".", "p", "n", "g">>
\* 'https://k.io/view' and 'https://k.io/view?m=1'
Str_frontend ==
    <<"h", "t", "t", "p", "s", ":", "/", "/", "k", ".", "i", "o", "/", "v", "i", "e", "w">>
Str_frontend_q == Str_frontend \o <<"?", "m", "=", "1">>

Users == {"anonymous", "bob"}
Customers == {"customerA", "customerB"}
ContentTypes == {"image/png", "video/mp4"}

\* the media ids uuid4 can hand out, and one more that it never does
MediaIds == {NewMediaId(k) : k \in 0..MaxUuids}

\* an expiry far beyond every default one
FarFuture == 7 * MaxWeeks + 8
\* an expiry that has passed at every time
Past == 0 - 1

\* dict d with d[k] = v
WithKey(d, k, v) == (k :> v) @@ d

Post(path, body) == [httpMethod |-> "POST", path |-> path, body |-> body]
Method(method, path) == [httpMethod |-> method, path |-> path]
GetPath(path) == Method("GET", path)

\* a body json.loads rejects
InvalidJson == [invalid_json |-> TRUE]

\* resource paths, as API Gateway passes them
P_media == S_api_v1 \o S_media
P_qr == S_api_v1 \o S_qr
P_register == S_api_v1 \o S_marketplace \o S_slash \o S_register
P_validate == S_api_v1 \o S_marketplace \o S_slash \o S_validate
P_media_id(id) == P_media \o S_slash \o id
P_qr_id(id) == P_qr \o S_slash \o id

MediaBody(content_type) == [file_name |-> Str_photo, content_type |-> content_type]
QrBody(media_id) == [media_id |-> media_id]
RegisterEvent(token, user_id) ==
    Post(P_register, [registration_token |-> token, user_id |-> user_id])
ValidateEvent(user_id) ==
    [httpMethod |-> "GET", path |-> P_validate,
     queryStringParameters |-> [user_id |-> user_id]]

\* the collaborator calls of each operation that can raise
FaultsOf(op) ==
    CASE op = "post_media" -> {"customers_query", "presign", "media_put", "media_update"}
      [] op = "get_media"  -> {"media_query", "presign"}
      [] op = "post_qr"    -> {"customers_query", "media_query", "presign", "qrcode", "qr_put"}
      [] op = "get_qr"     -> {"qr_get"}
      [] op = "register"   -> {"resolve", "customers_put"}
      [] op = "validate"   -> {"customers_query"}
      [] OTHER             -> {}

\* the calls of initialize_marketplace_token that can fail, when it makes them
InitFaults(processed, token) ==
    IF ~processed /\ token # "" THEN {"init_resolve", "init_put"} ELSE {}

AllFaults == {"customers_query", "presign", "media_put", "media_update", "media_query",
              "qrcode", "qr_put", "qr_get", "resolve", "customers_put",
              "init_resolve", "init_put"}

\* the customers whose record the index can return first
Firsts(C) ==
    IF \E i \in C : i.customer_identifier = "customerB" THEN Customers ELSE {"customerA"}

\* what the collaborators can do during one invocation: at most one call fails
Outcomes(ev, F, processed, token, C) ==
    {[fault |-> f, first |-> c] :
        f \in {"none"} \cup (F \cap (FaultsOf(Dispatch(ev)) \cup InitFaults(processed, token))),
        c \in Firsts(C)}

(***************************************************************************)
(* The state machine: a Lambda process serving invocations one at a time   *)
(***************************************************************************)
NoEvent == [none |-> TRUE]
NoResponse == [statusCode |-> 0, headers |-> EmptyDict, body |-> EmptyDict]
Never == 0 - 1

\* no invocation in progress
Idle == event = NoEvent

\* the pk of the record a logged call writes: put_item of store_media_metadata
\* (line 140) and of create_qr_mapping (line 158), update_item of lines 746-750
WrittenKey(c) ==
    IF c.call = "media.update_item" THEN <<"MEDIA", c.arg[3]>> ELSE c.arg.pk

\* the write counts w after the writes of the call log that went through
RECURSIVE CountWrites(_, _)
CountWrites(w, log) ==
    IF log = <<>> THEN w
    ELSE LET c == Head(log)
             isWrite == c.ok /\ c.call \in {"media.put_item", "media.update_item",
                                             "qr.put_item"}
         IN  IF ~isWrite THEN CountWrites(w, Tail(log))
             ELSE LET k == WrittenKey(c)
                      n == IF k \in DOMAIN w THEN w[k] ELSE 0
                      m == IF n < MaxWrites THEN n + 1 ELSE MaxWrites
                  IN  CountWrites([j \in DOMAIN w \cup {k} |-> IF j = k THEN m ELSE w[j]],
                                  Tail(log))

Init ==
    /\ now = 0
    /\ media_table = {}
    /\ qr_mapping_table = {}
    /\ marketplace_customers_table = {}
    /\ marketplace_token_processed = FALSE
    /\ MPS_REGISTRATION_TOKEN \in {"", "tokenA"}
    /\ uuids = 0
    /\ event = NoEvent
    /\ response = NoResponse
    /\ calls = <<>>
    /\ issued = {}
    /\ token_processed_at = Never
    /\ writes = EmptyDict

\* handler(event, context) runs to its return; cap bounds the uuids handed out
Handle(ev, out, cap) ==
    /\ Idle
    /\ LET r == handler(ev, marketplace_token_processed, MPS_REGISTRATION_TOKEN,
                        media_table, qr_mapping_table, marketplace_customers_table,
                        now, out, uuids)
       IN  /\ r.uuids <= cap
           /\ event' = ev
           /\ response' = r.response
           /\ calls' = r.calls
           /\ media_table' = r.media
           /\ qr_mapping_table' = r.qr
           /\ marketplace_customers_table' = r.customers
           /\ uuids' = r.uuids
           /\ issued' = IF Dispatch(ev) = "post_media" /\ r.response.statusCode = 200
                        THEN issued \cup {[request |-> ParsedBody(ev),
                                             response |-> r.response.body]}
                        ELSE issued
    /\ marketplace_token_processed' = TRUE
    /\ token_processed_at' = IF marketplace_token_processed THEN token_processed_at ELSE now
    /\ UNCHANGED <<now, MPS_REGISTRATION_TOKEN>>

\* an invocation, the writes not counted
Invoke(ev, out, cap) == Handle(ev, out, cap) /\ UNCHANGED writes

\* an invocation, its writes counted
InvokeCounted(ev, out, cap) == Handle(ev, out, cap) /\ writes' = CountWrites(writes, calls')

\* an invocation with an event of E, its collaborators failing only as F allows
Request(E, F, cap) ==
    \E ev \in E :
        \E out \in Outcomes(ev, F, marketplace_token_processed, MPS_REGISTRATION_TOKEN,
                            marketplace_customers_table) :
            Invoke(ev, out, cap)

\* the response has been handed back; the process waits for the next event
Return ==
    /\ ~Idle
    /\ event' = NoEvent
    /\ response' = NoResponse
    /\ calls' = <<>>
    /\ UNCHANGED <<now, media_table, qr_mapping_table, marketplace_customers_table,
                   marketplace_token_processed, MPS_REGISTRATION_TOKEN, uuids, issued,
                   token_processed_at, writes>>

\* time passes between invocations
Tick(d) ==
    /\ Idle
    /\ now' = now + d
    /\ UNCHANGED <<media_table, qr_mapping_table, marketplace_customers_table,
                   marketplace_token_processed, MPS_REGISTRATION_TOKEN, uuids,
                   event, response, calls, issued, token_processed_at, writes>>

TickDay == now < MaxDays /\ Tick(1)
TickWeek == now < 7 * MaxWeeks /\ Tick(7)

\* the process is replaced by a new one: module globals start over
ColdStart ==
    /\ Idle
    /\ marketplace_token_processed
    /\ marketplace_token_processed' = FALSE
    /\ token_processed_at' = Never
    /\ UNCHANGED <<now, media_table, qr_mapping_table, marketplace_customers_table,
                   MPS_REGISTRATION_TOKEN, uuids, event, response, calls, issued, writes>>

(***************************************************************************)
(* Media: uploads and their retrieval, over weeks                          *)
(***************************************************************************)
MediaEvents ==
    {RegisterEvent("tokenA", "anonymous"),
     Post(P_media, MediaBody("image/png")),
     Post(P_media, WithKey(MediaBody("video/mp4"), "expires_at", 0))}
    \cup {GetPath(P_media_id(id)) : id \in MediaIds}

MediaFaults == {"customers_query", "presign", "media_put", "media_update", "media_query"}

RequestMedia == Request(MediaEvents, MediaFaults, MaxUuids)
NextMedia == RequestMedia \/ Return \/ TickWeek
SpecMedia == Init /\ [][NextMedia]_vars

(***************************************************************************)
(* QR: mappings for one uploaded media, over weeks                         *)
(***************************************************************************)
\* the first two media ids
Id0 == NewMediaId(0)
Id1 == NewMediaId(1)

QrBodies ==
    {QrBody(Id0),
     WithKey(QrBody(Id0), "expires_at", FarFuture),
     WithKey(QrBody(Id0), "frontend_url", Str_frontend),
     WithKey(QrBody(Id0), "frontend_url", Str_frontend_q),
     QrBody(Id1),
     EmptyDict}

QrEvents ==
    {RegisterEvent("tokenA", "anonymous"), Post(P_media, MediaBody("image/png"))}
    \cup {Post(P_qr, b) : b \in QrBodies}
    \cup {GetPath(P_qr_id(id)) : id \in {Id0, Id1}}

QrFaults == {"customers_query", "media_query", "presign", "qrcode", "qr_put", "qr_get"}

RequestQr == Request(QrEvents, QrFaults, MaxUploads)
NextQr == RequestQr \/ Return \/ TickWeek
SpecQr == Init /\ [][NextQr]_vars

(***************************************************************************)
(* Gate: every operation, entitled or not, over days                       *)
(***************************************************************************)
GateEvents ==
    {RegisterEvent("tokenA", "anonymous"),
     ValidateEvent("anonymous"),
     Post(P_media, MediaBody("image/png")),
     Post(P_media, WithKey(MediaBody("image/png"), "user_id", "bob")),
     Post(P_qr, QrBody(Id0)),
     Post(P_qr, WithKey(QrBody(Id0), "user_id", "bob")),
     Post(P_qr, EmptyDict),
     GetPath(P_media_id(Id0)),
     GetPath(P_qr_id(Id0)),
     GetPath(S_api_v1),
     GetPath(S_slash)}

GateFaults == {"customers_query"}

RequestGate == Request(GateEvents, GateFaults, MaxUploads)
NextGate == RequestGate \/ Return \/ TickDay
SpecGate == Init /\ [][NextGate]_vars

(***************************************************************************)
(* Entitlement: registrations and validations, over days and processes     *)
(***************************************************************************)
EntitleEvents ==
    {RegisterEvent(token, "anonymous") : token \in {"tokenA", "tokenB", "bad"}}
    \cup {RegisterEvent("tokenA", "bob"), Post(P_register, EmptyDict)}
    \cup {ValidateEvent(u) : u \in Users}
    \cup {GetPath(P_validate), GetPath(S_slash)}

EntitleFaults == {"customers_query", "resolve", "customers_put", "init_resolve", "init_put"}

RequestEntitle == Request(EntitleEvents, EntitleFaults, MaxUploads)
NextEntitle == RequestEntitle \/ Return \/ TickDay \/ ColdStart
SpecEntitle == Init /\ [][NextEntitle]_vars

(***************************************************************************)
(* Routes: every resource under every prefix and method, every fault       *)
(***************************************************************************)
Resources ==
    {S_media, S_media \o S_slash \o Id0, S_qr, S_qr \o S_slash \o Id0,
     S_marketplace \o S_slash \o S_register, S_marketplace \o S_slash \o S_validate}

\* bare, versioned, duplicated version, proxy
Prefixes == {<<>>, S_api_v1, S_api_v1_v1, S_proxy}

Methods == {"GET", "POST", "DELETE"}

\* a body the operation behind resource r accepts
BodyFor(r) ==
    IF StartsWith(r, S_media) THEN MediaBody("image/png")
    ELSE IF StartsWith(r, S_qr) THEN QrBody(Id0)
    ELSE [registration_token |-> "tokenA"]

ResourceEvent(method, prefix, r) ==
    IF method = "POST" THEN Post(prefix \o r, BodyFor(r)) ELSE Method(method, prefix \o r)

RouteEvents ==
    {ResourceEvent(m, pre, r) : m \in Methods, pre \in Prefixes, r \in Resources}
    \cup {GetPath(S_api_v1), GetPath(S_api_v1_s), GetPath(S_slash), GetPath(<<>>),
          GetPath(S_api), GetPath(S_api_v1_v1), GetPath(S_proxy),
          Method("POST", S_api_v1_v1), GetPath(S_api \o <<"x">>),
          GetPath(S_media \o S_slash \o S_slash \o Id0),
          GetPath(S_slash \o S_media \o S_slash \o Id0 \o S_slash),
          GetPath(S_api \o <<"m", "e", "d", "i", "a">> \o S_slash \o Id0),
          [path |-> P_media],
          [httpMethod |-> "GET", path |-> <<>>,
           pathParameters |-> [proxy |-> <<"q", "r">> \o S_slash \o Id0]],
          Post(P_media, InvalidJson), Post(P_media, EmptyDict),
          Post(P_media, [file_name |-> Str_photo]),
          Post(P_qr, InvalidJson), Post(P_qr, EmptyDict), Post(P_qr, QrBody(Id1)),
          Post(P_qr, WithKey(QrBody(Id0), "expires_at", Past)),
          Post(P_qr, WithKey(QrBody(Id0), "frontend_url", Str_frontend)),
          Post(P_register, InvalidJson), Post(P_register, EmptyDict),
          RegisterEvent("bad", "anonymous")}

RequestRoute == Request(RouteEvents, AllFaults, MaxUploads)
NextRoute == RequestRoute \/ Return
SpecRoute == Init /\ [][NextRoute]_vars

(***************************************************************************)
(* Frontend URLs: QR codes that point at a frontend page                   *)
(***************************************************************************)
FrontendUrls ==
    {Str_frontend,
     Str_frontend \o S_slash,
     Str_frontend_q,
     Str_frontend \o <<"/", "?", "m", "=", "1">>,
     Str_frontend_q \o <<"?", "n", "=", "/">>,
     <<"?", "m">>}

FrontendEvents ==
    {RegisterEvent("tokenA", "anonymous"), Post(P_media, MediaBody("image/png")),
     GetPath(P_qr_id(Id0))}
    \cup {Post(P_qr, WithKey(QrBody(Id0), "frontend_url", u)) : u \in FrontendUrls}

FrontendFaults == {"qrcode", "qr_put"}

RequestFrontend == Request(FrontendEvents, FrontendFaults, MaxUploads)
NextFrontend == RequestFrontend \/ Return
SpecFrontend == Init /\ [][NextFrontend]_vars

(***************************************************************************)
(* Fetch: downloads from cold and warm processes, over days                *)
(***************************************************************************)
FetchEvents ==
    {Post(P_media, MediaBody("image/png")),
     Post(P_qr, QrBody(Id0)),
     GetPath(P_media_id(Id0)),
     GetPath(P_media_id(Id1))}

FetchFaults == {"media_query", "presign", "media_update", "init_resolve", "init_put"}

RequestFetch == Request(FetchEvents, FetchFaults, MaxUploads)
NextFetch == RequestFetch \/ Return \/ TickDay \/ ColdStart
SpecFetch == Init /\ [][NextFetch]_vars

(***************************************************************************)
(* Lifecycle: records written again and again, their writes counted        *)
(***************************************************************************)
LifecycleEvents ==
    {Post(P_media, MediaBody("image/png")),
     Post(P_qr, QrBody(Id0)),
     Post(P_qr, WithKey(QrBody(Id0), "frontend_url", Str_frontend)),
     Post(P_qr, QrBody(Id1)),
     GetPath(P_media_id(Id0)),
     GetPath(P_qr_id(Id0))}

LifecycleFaults == {"media_put", "media_update", "qr_put"}

RequestLifecycle ==
    \E ev \in LifecycleEvents :
        \E out \in Outcomes(ev, LifecycleFaults, marketplace_token_processed,
                            MPS_REGISTRATION_TOKEN, marketplace_customers_table) :
            InvokeCounted(ev, out, MaxUploads)
NextLifecycle == RequestLifecycle \/ Return \/ TickWeek
SpecLifecycle == Init /\ [][NextLifecycle]_vars

(***************************************************************************)
(* Order: the protected operations with and without their required fields  *)
(***************************************************************************)
\* a POST /media body without file_name
NoFileName == [content_type |-> "image/png"]

OrderEvents ==
    {RegisterEvent("tokenA", "bob"),
     Post(P_media, MediaBody("image/png")),
     Post(P_media, NoFileName),
     Post(P_media, WithKey(NoFileName, "user_id", "bob")),
     Post(P_qr, EmptyDict),
     Post(P_qr, [user_id |-> "bob"]),
     Post(P_qr, QrBody(Id0)),
     Post(P_qr, WithKey(QrBody(Id0), "user_id", "bob"))}

OrderFaults == {"customers_query", "media_query"}

RequestOrder == Request(OrderEvents, OrderFaults, MaxUploads)
NextOrder == RequestOrder \/ Return \/ TickDay
SpecOrder == Init /\ [][NextOrder]_vars

(***************************************************************************)
(* What the properties below read off a state                              *)
(***************************************************************************)

\* the calls handler made itself, not through initialize_marketplace_token
OwnCalls(log) == {i \in 1..Len(log) : "by" \notin DOMAIN log[i]}

\* a collaborator call of the handler raised
Raised(log) == \E i \in OwnCalls(log) : ~log[i].ok

\* the calls of that name the handler made
CallsNamed(log, name) == {i \in OwnCalls(log) : log[i].call = name}

\* the token exchanges initialize_marketplace_token made
InitExchanges(log) ==
    Cardinality({i \in 1..Len(log) : "by" \in DOMAIN log[i]
                                     /\ log[i].call = "resolve_customer"})

\* a step that is an invocation of handler
IsInvocation == Idle /\ event' # NoEvent

\* the ids POST /media has returned with status 200
IssuedIds == {b.response.media_id : b \in issued}

\* the active records of user u in the customers store C
RecordsOf(u, C) ==
    {i \in C : i.type = "marketplace_customer" /\ i.user_id = u /\ i.status = "active"}

\* a record validated at most 24 hours before t
Fresh(i, t) == t - i.last_validated_at <= REVALIDATION_DAYS

\* the user_id of a request with a JSON body
BodyUser(ev) == Get(ParsedBody(ev), "user_id", "anonymous")

(***************************************************************************)
(* C1                                                                      *)
(***************************************************************************)

\* C1: for every served resource r and every method, the bare path r, /api/v1 + r,
\* /api/v1/v1 + r and /proxy + r are rewritten and normalized to the same path and
\* dispatched to the same operation.
C1_PrefixedFormsNormalizeAsBare ==
    \A pre \in Prefixes, r \in Resources :
        (~Idle /\ "httpMethod" \in DOMAIN event /\ event.path = pre \o r) =>
            /\ NormalizedPath(EventPath(event)) = NormalizedPath(r)
            /\ Dispatch(event) = Dispatch([event EXCEPT !.path = r])

(***************************************************************************)
(* C2                                                                      *)
(***************************************************************************)

\* C2: a GET /qr/{code} that finds the stored mapping m answers 200 with m's url
\* when read before m.expires_at and 410, not 404, when read after it, and the
\* mapping store is the same after the read as before it.
C2_QrReadFollowsExpiry ==
    [][\A code \in {Id0, Id1} :
          (IsInvocation /\ event' = GetPath(P_qr_id(code)) /\ ~Raised(calls')) =>
              \A m \in qr_mapping_table :
                  m.pk = <<"QR", code>> =>
                      /\ now < m.expires_at =>
                            response'.statusCode = 200 /\ response'.body.url = m.url
                      /\ now > m.expires_at => response'.statusCode = 410
                      /\ qr_mapping_table' = qr_mapping_table]_vars

\* an expired mapping has been read: 410, and it is still stored
C2_ExpiredMappingRead ==
    /\ event = GetPath(P_qr_id(Id0))
    /\ response.statusCode = 410
    /\ \E m \in qr_mapping_table : m.pk = <<"QR", Id0>> /\ m.expires_at < now

(***************************************************************************)
(* C3                                                                      *)
(***************************************************************************)

\* C3: GET /media/{id} for a media record whose expires_at is earlier than the
\* current time does not answer 200 with a download URL.
C3_ExpiredMediaIsNotServed ==
    \A id \in MediaIds :
        (~Idle /\ event = GetPath(P_media_id(id))) =>
            \A m \in media_table :
                (m.pk = <<"MEDIA", id>> /\ m.expires_at < now) =>
                    ~(response.statusCode = 200 /\ "download_url" \in DOMAIN response.body)

(***************************************************************************)
(* C4                                                                      *)
(***************************************************************************)

\* C4: once POST /media has answered 200 with media_id i for content type c, a
\* GET /media/i whose collaborators do not fail answers 200 with
\* metadata.content_type = c and a download URL that was requested from storage
\* with response content type c.
C4_UploadThenFetchKeepsContentType ==
    \A b \in issued :
        (~Idle /\ event = GetPath(P_media_id(b.response.media_id)) /\ ~Raised(calls)) =>
            /\ response.statusCode = 200
            /\ response.body.metadata.content_type = b.request.content_type
            /\ \E i \in CallsNamed(calls, "presign") :
                  /\ calls[i].arg.operation = "get_object"
                  /\ calls[i].arg.params =
                         [ResponseContentType |-> b.request.content_type]
                  /\ response.body.download_url = calls[i].arg

\* a video uploaded with status 200 has been fetched
C4_IssuedVideoFetched ==
    \E b \in issued :
        /\ b.request.content_type = "video/mp4"
        /\ event = GetPath(P_media_id(b.response.media_id))
        /\ response.statusCode = 200

(***************************************************************************)
(* C5                                                                      *)
(***************************************************************************)

\* C5: GET /media/{id} for an id that no POST /media answered with status 200
\* answers 404 'Media not found' and issues no download URL (here even when only
\* the requests whose collaborators do not fail are looked at).
C5_UnissuedIdIsNotFound ==
    \A id \in MediaIds \ IssuedIds :
        (~Idle /\ event = GetPath(P_media_id(id)) /\ ~Raised(calls)) =>
            /\ response.statusCode = 404
            /\ response.body = [error |-> "Media not found"]
            /\ CallsNamed(calls, "presign") = {}

(***************************************************************************)
(* C6                                                                      *)
(***************************************************************************)

\* the POST /qr events whose media_id names no stored media record
NamesNoMedia(ev) ==
    /\ Dispatch(ev) = "post_qr" /\ BodyIsJson(ev)
    /\ Truthy(Get(ParsedBody(ev), "media_id", NONE))
    /\ QueryByPk(media_table, <<"MEDIA", ParsedBody(ev).media_id>>, "METADATA") = {}

\* the POST /qr events without media_id
NamesNothing(ev) ==
    Dispatch(ev) = "post_qr" /\ BodyIsJson(ev) /\ "media_id" \notin DOMAIN ParsedBody(ev)

\* the statement of C6 as the specification has it: POST /qr with an unknown
\* media_id answers 404 {"error":"Media not found"}, renders no QR image and leaves
\* the mapping store as it was; POST /qr without media_id answers 400 and leaves
\* the mapping store as it was.
C6_AsStated ==
    [][(IsInvocation /\ ~Raised(calls')) =>
          /\ NamesNoMedia(event') =>
                /\ response'.statusCode = 404
                /\ response'.body = [error |-> "Media not found"]
                /\ CallsNamed(calls', "qrcode") = {}
                /\ qr_mapping_table' = qr_mapping_table
          /\ NamesNothing(event') =>
                /\ response'.statusCode = 400
                /\ qr_mapping_table' = qr_mapping_table]_vars

\* C6: POST /qr sent for a user_id whose entitlement records are all at most 24
\* hours old (and there is one) answers 404 {"error":"Media not found"} when its
\* media_id names no stored media record and 400 when it has no media_id; sent for
\* a user_id without such records it answers 403 in both cases; in every case no
\* QR image is rendered and the mapping store is left as it was.
C6_UnknownOrMissingMediaId ==
    [][(IsInvocation /\ ~Raised(calls')
          /\ (NamesNoMedia(event') \/ NamesNothing(event'))) =>
          LET records == RecordsOf(BodyUser(event'), marketplace_customers_table')
              entitled == records # {} /\ \A i \in records : Fresh(i, now)
              denied == \A i \in records : ~Fresh(i, now)
          IN  /\ (entitled /\ NamesNoMedia(event')) =>
                    /\ response'.statusCode = 404
                    /\ response'.body = [error |-> "Media not found"]
              /\ (entitled /\ NamesNothing(event')) =>
                    /\ response'.statusCode = 400
                    /\ "error" \in DOMAIN response'.body
              /\ denied => response'.statusCode = 403
              /\ CallsNamed(calls', "qrcode") = {}
              /\ qr_mapping_table' = qr_mapping_table]_vars

\* an entitled user has asked for the QR code of media that is not stored, while
\* a mapping of other media is
C6_UnknownMediaRefused ==
    /\ event = Post(P_qr, QrBody(Id1))
    /\ response.statusCode = 404
    /\ qr_mapping_table # {}

(***************************************************************************)
(* C7                                                                      *)
(***************************************************************************)

\* C7: POST /media and POST /qr sent for a user_id that
\* validate_marketplace_access denies (no active record of the user that is at most
\* 24 hours old, or the lookup failed) answer 403 with error
\* 'marketplace_subscription_required' and a registration_url, request no presigned
\* URL and leave the media and mapping stores as they were; every other operation
\* never answers with that denial.
C7_ExactlyTwoOperationsGated ==
    [][IsInvocation =>
          LET op == Dispatch(event')
              records == RecordsOf(BodyUser(event'), marketplace_customers_table')
              denied == \/ \A i \in records : ~Fresh(i, now)
                        \/ \E i \in CallsNamed(calls', "customers.query") : ~calls'[i].ok
          IN  /\ (op \in {"post_media", "post_qr"} /\ BodyIsJson(event') /\ denied) =>
                    /\ response'.statusCode = 403
                    /\ response'.body.error = "marketplace_subscription_required"
                    /\ "registration_url" \in DOMAIN response'.body
                    /\ CallsNamed(calls', "presign") = {}
                    /\ media_table' = media_table
                    /\ qr_mapping_table' = qr_mapping_table
              /\ op \notin {"post_media", "post_qr"} =>
                    /\ response'.statusCode # 403
                    /\ Get(response'.body, "error", "") # "marketplace_subscription_required"]_vars

\* an upload has been refused for a user whose records are all too old, while the
\* media store holds a record that can still be fetched
C7_StaleUserRefused ==
    /\ event = Post(P_media, MediaBody("image/png"))
    /\ response.statusCode = 403
    /\ RecordsOf("anonymous", marketplace_customers_table) # {}
    /\ media_table # {}

(***************************************************************************)
(* C8                                                                      *)
(***************************************************************************)

\* C8: GET /marketplace/validate?user_id=u whose lookup does not fail reports
\* valid=true if and only if the customers store holds an active record of u whose
\* last_validated_at is at most 24 hours old, whatever older records of u it holds.
C8_ValidIffSomeFreshRecord ==
    (~Idle /\ Dispatch(event) = "validate" /\ ~Raised(calls)) =>
        (response.body.valid <=>
            \E i \in RecordsOf(response.body.user_id, marketplace_customers_table) :
                Fresh(i, now))

(***************************************************************************)
(* C9                                                                      *)
(***************************************************************************)

C10_AlwaysACorsJsonResponse ==
    ~Idle =>
        /\ response.statusCode \in {200, 400, 403, 404, 410, 500}
        /\ "Access-Control-Allow-Origin" \in DOMAIN response.headers
        /\ response.headers["Access-Control-Allow-Origin"] = "*"
        /\ response.statusCode # 200 => "error" \in DOMAIN response.body

\* a collaborator raised in the middle of an upload and the caller got a 500
C10_CollaboratorRaised ==
    /\ ~Idle
    /\ Dispatch(event) = "post_media"
    /\ \E i \in CallsNamed(calls, "media.put_item") : ~calls[i].ok
    /\ response.statusCode = 500

(***************************************************************************)
(* C11                                                                     *)
(***************************************************************************)

\* the user_id of the request holds entitlement records, all at most 24 hours old
Entitled(ev, C, t) ==
    /\ RecordsOf(BodyUser(ev), C) # {}
    /\ \A i \in RecordsOf(BodyUser(ev), C) : Fresh(i, t)

\* C11: POST /media by an entitled caller whose body is not valid JSON, or lacks
\* file_name or content_type, is answered 400, not 500, and writes no media record.
C11_BadUploadBodyIs400 ==
    [][(/\ IsInvocation
        /\ Dispatch(event') = "post_media"
        /\ Entitled(event', marketplace_customers_table', now)
        /\ ~Raised(calls')
        /\ \/ ~BodyIsJson(event')
           \/ ~({"file_name", "content_type"} \subseteq DOMAIN ParsedBody(event'))) =>
          /\ response'.statusCode = 400
          /\ media_table' = media_table]_vars

(***************************************************************************)
(* C12                                                                     *)
(***************************************************************************)

\* C12: a request that matches no operation is answered 404 with error 'Not found',
\* 'path' equal to the path of the request exactly as received, 'normalized_path'
\* equal to the normalized path and 'method' equal to the request method.
C12_NotFoundEchoesRequest ==
    (~Idle /\ Dispatch(event) = "not_found") =>
        /\ response.statusCode = 404
        /\ response.body.error = "Not found"
        /\ response.body.path = Get(event, "path", <<>>)
        /\ response.body.normalized_path = NormalizedPath(EventPath(event))
        /\ response.body.method = event.httpMethod

(***************************************************************************)
(* C13                                                                     *)
(***************************************************************************)

\* the target the specification gives for frontend URL u
C13_Target(u) ==
    IF \E k \in 1..Len(u) : u[k] = "?"
    THEN LET k == CHOOSE j \in 1..Len(u) : u[j] = "?" /\ \A h \in 1..(j - 1) : u[h] # "?"
             b == SubSeq(u, 1, k - 1)
             q == SubSeq(u, k + 1, Len(u))
         IN  (IF b # <<>> /\ b[Len(b)] = "/" THEN b ELSE b \o <<"/">>) \o <<"?">> \o q
    ELSE IF u[Len(u)] = "/" THEN u ELSE u \o <<"/">>

\* C13: a POST /qr answered 200 for a non-empty frontend_url u maps the media to
\* u with one '/' put at its end, or before its first '?', unless one is there
\* already; the query string is kept as it is, the target is what the mapping
\* store holds as url, and normalizing the target again gives the target.
C13_FrontendUrlNormalized ==
    (~Idle /\ Dispatch(event) = "post_qr" /\ response.statusCode = 200
       /\ "frontend_url" \in DOMAIN ParsedBody(event)) =>
        LET u == ParsedBody(event).frontend_url
            target == response.body.mapping.url.href
        IN  /\ target = C13_Target(u)
            /\ NormalizeFrontendUrl(target) = target
            /\ \E m \in qr_mapping_table :
                  m.pk = <<"QR", ParsedBody(event).media_id>> /\ m.url = [href |-> target]

\* a URL with two '?' and none with a slash before it has been mapped
C13_QueryUrlMapped ==
    /\ event = Post(P_qr, WithKey(QrBody(Id0), "frontend_url",
                                  Str_frontend_q \o <<"?", "n", "=", "/">>))
    /\ response.statusCode = 200

(***************************************************************************)
(* C14                                                                     *)
(***************************************************************************)

\* C14: the body of a GET /qr/{code} answered 200 has exactly the keys url,
\* created_at, expires_at and status, and neither pk nor sk of the stored record.
C14_QrBodyHasPublicFieldsOnly ==
    (~Idle /\ Dispatch(event) = "get_qr" /\ response.statusCode = 200) =>
        DOMAIN response.body = {"url", "created_at", "expires_at", "status"}

(***************************************************************************)
(* C15                                                                     *)
(***************************************************************************)

\* the API paths without a resource segment
C15_DiscoveryPaths == {S_api_v1, S_api_v1_s, S_api, S_api_v1_v1, S_slash, S_proxy}

\* C15: a GET of /api/v1, /api/v1/, /api/, /api/v1/v1, / or /proxy is answered 200
\* and never 404: with the OpenAPI document and no-cache headers when the path is
\* the versioned API root, with the endpoint listing otherwise.
C15_NoResourceIsDiscovery ==
    \A p \in C15_DiscoveryPaths :
        (~Idle /\ event = GetPath(p)) =>
            /\ response.statusCode = 200
            /\ IF p \in {S_api_v1, S_api_v1_s}
               THEN response = OpenApiResponse
               ELSE response = RootResponse

(***************************************************************************)
(* C16                                                                     *)
(***************************************************************************)

\* the storage path POST /media made the upload URL for when it wrote record m:
\* media/<date of creation>/<media id>/<file name>
C16_CreationPath(m) == <<"media", m.created_at, m.pk[2], m.file_name>>

\* C16: every download URL that GET /media/i or POST /qr for i requests from
\* storage is scoped to the storage path the record of i was created with,
\* whatever the date of the read and whether or not the record got its file_path.
C16_StoragePathNeverChanges ==
    (~Idle /\ Dispatch(event) \in {"get_media", "post_qr"}) =>
        \A i \in CallsNamed(calls, "presign") :
            calls[i].arg.operation = "get_object" =>
                \E m \in media_table :
                    /\ m.pk = <<"MEDIA", calls[i].arg.key[3]>>
                    /\ calls[i].arg.key = C16_CreationPath(m)

(***************************************************************************)
(* C17                                                                     *)
(***************************************************************************)

\* what follows the last '/' of s
C17_FinalSegment(s) ==
    LET slashes == {k \in 1..Len(s) : s[k] = "/"}
        last == IF slashes = {} THEN 0
                ELSE CHOOSE k \in slashes : \A j \in slashes : j <= k
    IN  SubSeq(s, last + 1, Len(s))

\* C17: a POST /media answered 200 returns and stores as file_name the final
\* segment of the file_name supplied, which also ends the record's sort key and
\* the storage path of the upload URL; the media_id has 32 characters, no hyphen,
\* and is none of the ids issued or stored before.
C17_BasenameAndFreshId ==
    [][(IsInvocation /\ Dispatch(event') = "post_media" /\ response'.statusCode = 200) =>
          LET name == C17_FinalSegment(ParsedBody(event').file_name)
              body == response'.body
              path == body.upload_url.key
          IN  /\ body.metadata.file_name = name
              /\ body.metadata.sk = <<"METADATA", name>>
              /\ path[Len(path)] = name
              /\ \E m \in media_table' :
                    /\ m.pk = <<"MEDIA", body.media_id>>
                    /\ m.file_name = name /\ m.sk = <<"METADATA", name>>
                    /\ m.file_path = path
              /\ Len(body.media_id) = 32
              /\ \A k \in 1..32 : body.media_id[k] # "-"
              /\ body.media_id \notin IssuedIds
              /\ \A m \in media_table : m.pk # <<"MEDIA", body.media_id>>]_vars

\* a second upload of a/b/photo.png has been answered 200
C17_SecondUploadStored ==
    /\ Dispatch(event) = "post_media"
    /\ response.statusCode = 200
    /\ ParsedBody(event).file_name = Str_photo
    /\ response.body.metadata.file_name = <<"p", "h", "o", "t", "o", ".", "p", "n", "g">>
    /\ Cardinality(issued) = 2

(***************************************************************************)
(* C18                                                                     *)
(***************************************************************************)

\* /media/<id>, /media//<id> and //media/<id>/
C18_SameButEmptySegments(id) ==
    {S_media \o S_slash \o id,
     S_media \o S_slash \o S_slash \o id,
     S_slash \o S_media \o S_slash \o id \o S_slash}

\* C18: paths that differ only in empty segments are dispatched to the same
\* operation with the same identifier: a GET of /media/<id>, /media//<id> or
\* //media/<id>/ is a GET /media/{id} for <id>.
C18_EmptySegmentsDropped ==
    \A p \in C18_SameButEmptySegments(Id0) :
        (~Idle /\ event = GetPath(p)) =>
            /\ Dispatch(event) = "get_media"
            /\ PathId(NormalizedPath(EventPath(event))) = Id0

(***************************************************************************)
(* C19                                                                     *)
(***************************************************************************)

\* C19: a POST /media answered 200 has made exactly one write to the media store:
\* one put of the record and no second write to it in the same request.
C19_OneStoreWritePerUpload ==
    (~Idle /\ Dispatch(event) = "post_media" /\ response.statusCode = 200) =>
        Cardinality(CallsNamed(calls, "media.put_item")
                    \cup CallsNamed(calls, "media.update_item")) = 1

(***************************************************************************)
(* C20                                                                     *)
(***************************************************************************)

\* the statement of C20 as the specification has it: an invocation with
\* GET /media/{id}, whatever its outcome and whether the process is cold or warm,
\* leaves the media store, the QR mapping store and the customers store as they
\* were.
C20_AsStated ==
    [][(IsInvocation /\ Dispatch(event') = "get_media") =>
          /\ media_table' = media_table
          /\ qr_mapping_table' = qr_mapping_table
          /\ marketplace_customers_table' = marketplace_customers_table]_vars

\* the records of the customers store C other than those of user 'anonymous'
C20_NotAnonymous(C) == {i \in C : i.sk # <<"USER", "anonymous">>}

\* C20: an invocation with GET /media/{id}, whatever its outcome, leaves the media
\* store and the QR mapping store as they were; it leaves the customers store as
\* it was when the process is warm or no registration token is configured; the
\* first invocation of a cold process with a token configured writes the record of
\* the token's customer for user 'anonymous', validated now, unless the exchange
\* or the write fails, and touches no other record.
C20_FetchWritesOnlyAtColdStart ==
    [][(IsInvocation /\ Dispatch(event') = "get_media") =>
          /\ media_table' = media_table
          /\ qr_mapping_table' = qr_mapping_table
          /\ IF marketplace_token_processed \/ MPS_REGISTRATION_TOKEN = ""
             THEN marketplace_customers_table' = marketplace_customers_table
             ELSE /\ C20_NotAnonymous(marketplace_customers_table')
                        = C20_NotAnonymous(marketplace_customers_table)
                  /\ (\A i \in 1..Len(calls') : calls'[i].ok) =>
                        \E r \in marketplace_customers_table' :
                            /\ r.user_id = "anonymous"
                            /\ r.last_validated_at = now]_vars

\* a stored media has been fetched by a process that started a day or more after
\* the upload and exchanged its token on the way
C20_ColdFetch ==
    /\ Dispatch(event) = "get_media"
    /\ response.statusCode = 200
    /\ InitExchanges(calls) = 1
    /\ \E m \in media_table : m.created_at < now
    /\ \E r \in marketplace_customers_table : r.created_at = now

(***************************************************************************)
(* C21: records are created once, written at most once more, never deleted *)
(***************************************************************************)
\* the records of a table, by primary key
C21_Keys(table) == {<<i.pk, i.sk>> : i \in table}

\* C21: over any sequence of requests, every MediaRecord and every QRMapping
\* stays in its store once it is there (no step removes a stored record), and
\* has been written at most twice in all: once when it was created and at most
\* once more afterwards, repeated POST /qr for the same media_id included.
C21_CreatedOnceWrittenOnceMore ==
    [][/\ C21_Keys(media_table) \subseteq C21_Keys(media_table')
       /\ C21_Keys(qr_mapping_table) \subseteq C21_Keys(qr_mapping_table')
       /\ \A k \in DOMAIN writes' : writes'[k] <= 2]_vars

(***************************************************************************)
(* C22: a resolved download URL is still valid                             *)
(***************************************************************************)
\* the presigned URL url, signed on day signed_at for expires_in seconds, has
\* lapsed on day t
C22_Lapsed(url, t) == t * 24 * 3600 > url.signed_at * 24 * 3600 + url.expires_in

\* C22: whenever GET /qr/{code} answers 200 for a mapping whose url is a
\* download URL the backend presigned (POST /qr without frontend_url), that URL
\* has not lapsed at the time of the answer: it is within the 7 days it was
\* signed for, whatever expires_at the caller of POST /qr supplied.
C22_ResolvedUrlStillValid ==
    (/\ ~Idle
     /\ Dispatch(event) = "get_qr"
     /\ response.statusCode = 200
     /\ "signed_at" \in DOMAIN response.body.url)
    => ~C22_Lapsed(response.body.url, now)

(***************************************************************************)
(* C23: POST /media is all-or-nothing on the media store                   *)
(***************************************************************************)
\* C23: an invocation of POST /media answered with a status other than 200 (403,
\* or 500 after a failing presign, put_item or update_item) leaves the media
\* store as it was before the request; so every stored MediaRecord has a
\* media_id that a POST /media answered 200 returned, and has its file_path.
C23_UploadIsAllOrNothing ==
    [][(IsInvocation /\ Dispatch(event') = "post_media")
       => /\ response'.statusCode # 200 => media_table' = media_table
          /\ \A i \in media_table' : /\ i.pk[2] \in {b.response.media_id : b \in issued'}
                                     /\ "file_path" \in DOMAIN i]_vars

(***************************************************************************)
(* C24: the entitlement check comes before the validation of the fields    *)
(***************************************************************************)
\* what validate_marketplace_access answers in the invocation in progress when the
\* index returns the record of customer first before the others
C24_Granted(first) ==
    validate_marketplace_access(
        BodyUser(event), marketplace_customers_table, now,
        [fault |-> IF \E i \in CallsNamed(calls, "customers.query") : ~calls[i].ok
                   THEN "customers_query" ELSE "none",
         first |-> first])

\* the request lacks the field its operation requires: media_id of POST /qr,
\* file_name of POST /media
C24_LacksRequiredField ==
    \/ Dispatch(event) = "post_qr" /\ ~Truthy(Get(ParsedBody(event), "media_id", NONE))
    \/ Dispatch(event) = "post_media" /\ "file_name" \notin DOMAIN ParsedBody(event)

\* C24: POST /qr without media_id and POST /media without file_name, sent for a
\* user_id that validate_marketplace_access denies, are answered 403 and never
\* 400; and POST /qr answers 400 or 404 only for a user_id that
\* validate_marketplace_access grants.
C24_EntitlementBeforeValidation ==
    (~Idle /\ Dispatch(event) \in {"post_qr", "post_media"} /\ BodyIsJson(event)) =>
        /\ (C24_LacksRequiredField /\ \A c \in Customers : ~C24_Granted(c)) =>
                response.statusCode = 403
        /\ (Dispatch(event) = "post_qr" /\ response.statusCode \in {400, 404}) =>
                \E c \in Customers : C24_Granted(c)

\* POST /qr without media_id has been refused for a user whose only entitlement
\* record has gone stale, while media is stored
C24_StaleUserWithoutMediaId ==
    /\ event = Post(P_qr, [user_id |-> "bob"])
    /\ response.statusCode = 403
    /\ RecordsOf("bob", marketplace_customers_table) # {}
    /\ \A i \in RecordsOf("bob", marketplace_customers_table) : ~Fresh(i, now)
    /\ \A i \in CallsNamed(calls, "customers.query") : calls[i].ok
    /\ media_table # {}

====
